---- MODULE Spec2Model ----
(***************************************************************************)
(* Renewal dialog (RenewSubscriptionModal), reward tracker                 *)
(* (RewardCalculationStatus) and query cache of the subscription feature,  *)
(* as state machines over the React state of the components, the entries   *)
(* of the query cache and the asynchronous calls in flight.                *)
(***************************************************************************)
EXTENDS Integers, Sequences, FiniteSets, TLC

\* ------------------------------------------------------------------------
\* Bounds
\* ------------------------------------------------------------------------
\* number of handleConfirm invocations followed in one behaviour
MaxConfirms == 2
\* length of the reward list the server returns for a subscription
MaxRewards == 2
\* last instant of the clock
MaxTime == 2
\* mutations settled in one behaviour of the cache
MaxMutations == 1
\* fetches answered in one behaviour of the cache
MaxFetches == 2
\* length of a subscription list answered by the backend
MaxListLen == 2
\* clicks on the bulk buttons in one behaviour of the page
MaxRuns == 2
\* fetches of the reward configuration answered in one behaviour
MaxConfigFetches == 3
\* retry of useRewardConfig
Retry == 2
\* records in the attendance list of RewardProgress
MaxAttendances == 2

\* the count of automatic openings of the reminder stops here
MaxOpens == 2

\* ------------------------------------------------------------------------
\* Values
\* ------------------------------------------------------------------------
\* JavaScript null / undefined for strings and ids
Null == "null"
UndefinedId == "undefined"
\* JavaScript NaN and undefined for the numeric discount (discounts are >= 0)
NaN == -1
Undefined == -2

\* messages the dialog can present
RewardWarning == "La suscripcion se renovo pero hubo un problema al marcar la recompensa como aplicada"
GenericRenewError == "Error al renovar la suscripcion"
\* messages carried by failures of the renewal call
Messages == {"m1"}
\* thrown values: an Error with a message, or a value that is not an Error
Thrown == [isError : {TRUE}, message : Messages] \cup {[isError |-> FALSE, message |-> Null]}

\* SubscriptionStatus enum
SubscriptionStatus == {"active", "expired", "pending_payment", "canceled", "scheduled"}
\* days remaining of the subscriptions offered to the dialog
DaysValues == {5, 10}
SubscriptionIds == {"s1", "s2"}
Subscriptions == [id : SubscriptionIds, status : SubscriptionStatus, daysRemaining : DaysValues]
NullSub == [id |-> Null, status |-> "none", daysRemaining |-> 0]
\* ids returned by the renewal call
NewIds == {"n1"}

\* discount_percentage is number | string
Num(n) == [isString |-> FALSE, num |-> n, str |-> <<>>]
Str(s) == [isString |-> TRUE, num |-> 0, str |-> s]
\* the client's available rewards: id -> discount_percentage
RewardIds == {"r1", "r2", "r3"}
DiscountOf == [r \in RewardIds |->
                 CASE r = "r1" -> Num(20)
                   [] r = "r2" -> Str(<<"1", "5">>)
                   [] r = "r3" -> Str(<<"x">>)]

Digits == {"0", "1", "2", "3", "4", "5", "6", "7", "8", "9"}
DigitVal(c) == CASE c = "0" -> 0 [] c = "1" -> 1 [] c = "2" -> 2 [] c = "3" -> 3
                 [] c = "4" -> 4 [] c = "5" -> 5 [] c = "6" -> 6 [] c = "7" -> 7
                 [] c = "8" -> 8 [] c = "9" -> 9

RECURSIVE ParseDigits(_, _)
\* value of the longest prefix of digits of s, acc being the value read so far
ParseDigits(s, acc) ==
  IF s = <<>> \/ Head(s) \notin Digits THEN acc
  ELSE ParseDigits(Tail(s), acc * 10 + DigitVal(Head(s)))

\* parseFloat on digit strings: the leading digits, NaN when there is none
ParseFloat(s) ==
  IF s = <<>> \/ Head(s) \notin Digits THEN NaN ELSE ParseDigits(s, 0)

IsNaN(n) == n = NaN

\* ------------------------------------------------------------------------
\* State
\* ------------------------------------------------------------------------
VARIABLES
  isOpen,              \* prop: the parent shows the dialog
  subscription,        \* prop: the subscription to renew, or NullSub
  isLoadingWired,      \* whether the parent passes isLoading (default false)
  hasExistingReward,   \* memo over the rewards fetched for the subscription
  isSubmitting,        \* useState
  error,               \* useState
  selectedReward,      \* useState (a reward id, or Null)
  hasCalculatedReward, \* useState
  calls,               \* the handleConfirm invocations, each with its closure
  \* RewardCalculationStatus of one subscription
  rewards,             \* data of useRewardsBySubscription (when hasData)
  hasData,             \* data is not undefined
  rewardsLoading,      \* isLoading of the query: first fetch, nothing cached
  rewardsError,        \* error of the query
  fetching,            \* a fetch of the rewards is in flight
  lastCalculationResult, \* useState
  calcPending,         \* calculateEligibilityMutation.isPending
  now,                 \* the clock read by new Date()
  rewardStatus,        \* useMemo
  derivedAt,           \* the clock when rewardStatus was last computed
  \* the query cache (QueryClient) behind the subscription hooks
  queries,             \* per query key: data, invalidation mark, fetch in flight
  lastMutation,        \* the mutation whose result was handled last
  mutationCount,       \* mutations settled so far
  fetchCount,          \* fetches answered so far
  \* SubscriptionsPage
  runs,                \* the invocations of the two bulk handlers
  lastActionResult,    \* useState: the result banner, or NoActionResult
  pageQuery,           \* useAllSubscriptions(filters, shouldFetch)
  timers,              \* pending 8 s timers that clear the banner
  \* useRewardConfig
  configQuery,         \* the query ['rewards', 'config']
  lastResponse,        \* the last settled getRewardConfig call, if any
  configFetches,       \* getRewardConfig calls settled so far
  \* RewardProgress
  progressProps,       \* activeSubscription, subscriptionPlan, attendances
  progressConfig,      \* getRewardConfigData(rewardConfigQuery) at the render
  progress,            \* useMemo: <<>> for null
  \* ClientList
  isStatusModalOpen,   \* isDeleteModalOpen and isActivateModalOpen
  clientToToggle,      \* clientToDelete and clientToActivate
  isToggling,          \* toggleStatusMutation.isPending
  toggleCall,          \* the confirm handler that awaits the toggle
  lastToggle,          \* how the last toggle ended
  \* Dashboard and useMembershipReminder
  reminderStorage,     \* sessionStorage 'membership_reminder_shown' is 'true'
  dashboardMounted,    \* the Dashboard is on screen
  hasShownReminder,    \* useState of useMembershipReminder
  hasAttemptedToShowReminder, \* useRef of the Dashboard
  isReminderModalOpen, \* useState of the Dashboard
  dashboardQuery,      \* isDashboardLoading, isDashboardRefetching, dashboardData
  reminderOpens        \* automatic openings since the state was last cleared

dialogVars == <<isOpen, subscription, isLoadingWired, hasExistingReward,
                isSubmitting, error, selectedReward, hasCalculatedReward, calls>>

trackerVars == <<rewards, hasData, rewardsLoading, rewardsError, fetching,
                 lastCalculationResult, calcPending, now, rewardStatus, derivedAt>>

cacheVars == <<queries, lastMutation, mutationCount, fetchCount>>

pageVars == <<runs, lastActionResult, pageQuery, timers>>

configVars == <<configQuery, lastResponse, configFetches>>

progressVars == <<progressProps, progressConfig, progress>>

toggleVars == <<isStatusModalOpen, clientToToggle, isToggling, toggleCall, lastToggle>>

reminderVars == <<reminderStorage, dashboardMounted, hasShownReminder,
                  hasAttemptedToShowReminder, isReminderModalOpen,
                  dashboardQuery, reminderOpens>>

vars == <<dialogVars, trackerVars, cacheVars, pageVars,
         configVars, progressVars, toggleVars, reminderVars>>

\* what the actions of one component leave alone
outsideDialog ==
  <<trackerVars, cacheVars, pageVars, configVars,
    progressVars, toggleVars, reminderVars>>
outsideTracker ==
  <<dialogVars, cacheVars, pageVars, configVars,
    progressVars, toggleVars, reminderVars>>
outsideCache ==
  <<dialogVars, trackerVars, pageVars, configVars,
    progressVars, toggleVars, reminderVars>>
outsidePage ==
  <<dialogVars, trackerVars, cacheVars, configVars,
    progressVars, toggleVars, reminderVars>>
outsideConfig ==
  <<dialogVars, trackerVars, cacheVars, pageVars,
    progressVars, toggleVars, reminderVars>>
outsideProgress ==
  <<dialogVars, trackerVars, cacheVars, pageVars,
    configVars, toggleVars, reminderVars>>
outsideToggle ==
  <<dialogVars, trackerVars, cacheVars, pageVars,
    configVars, progressVars, reminderVars>>
outsideReminder ==
  <<dialogVars, trackerVars, cacheVars, pageVars,
    configVars, progressVars, toggleVars>>

\* ------------------------------------------------------------------------
\* Renewal eligibility
\* ------------------------------------------------------------------------
RenewalWindowDays == 7

\* the days-remaining policy of utils/subscriptionFilters
CanRenewByDaysRemaining(s) ==
  IF s.daysRemaining <= RenewalWindowDays
  THEN [canRenew |-> TRUE, daysRemaining |-> s.daysRemaining, message |-> UndefinedId]
  ELSE [canRenew |-> FALSE, daysRemaining |-> s.daysRemaining, message |-> "blocked"]

RenewalCheckCanceledRenewable(s) ==
  IF s = NullSub THEN [canRenew |-> FALSE, daysRemaining |-> 0, message |-> UndefinedId]
  ELSE IF s.status \in {"expired", "canceled"}
       THEN [canRenew |-> TRUE, daysRemaining |-> 0, message |-> UndefinedId]
  ELSE CanRenewByDaysRemaining(s)

RenewalCheck(s) ==
  IF s = NullSub THEN [canRenew |-> FALSE, daysRemaining |-> 0, message |-> UndefinedId]
  ELSE IF s.status = "expired"
       THEN [canRenew |-> TRUE, daysRemaining |-> 0, message |-> UndefinedId]
  ELSE IF s.status = "active" THEN CanRenewByDaysRemaining(s)
  ELSE [canRenew |-> FALSE, daysRemaining |-> 0, message |-> UndefinedId]

\* the component returns null without a subscription; the Modal shows when open
DialogRendered == isOpen /\ subscription # NullSub

BlockingMessageNever(s) == FALSE

\* {!renewalCheck.canRenew && renewalCheck.message && (...)}
BlockingMessageShown(s) ==
  ~RenewalCheck(s).canRenew /\ RenewalCheck(s).message # UndefinedId

\* isLoading prop: the parent's renewal mutation is pending, when it is passed
IsLoading == isLoadingWired /\ \E i \in 1..Len(calls) : calls[i].renew = "pending"

\* disabled={isSubmitting || isLoading}
CancelDisabled == isSubmitting \/ IsLoading

\* disabled={isSubmitting || isLoading || !renewalCheck.canRenew}
ConfirmDisabled == isSubmitting \/ IsLoading \/ ~RenewalCheck(subscription).canRenew

\* clientId && availableRewards && availableRewards.length > 0 && hasCalculatedReward
RewardSelectorShown == RewardIds # {} /\ hasCalculatedReward

\* ------------------------------------------------------------------------
\* Component state as a record, and the effects
\* ------------------------------------------------------------------------
Dlg == [isOpen |-> isOpen, isSubmitting |-> isSubmitting, error |-> error,
        selectedReward |-> selectedReward, hasCalculatedReward |-> hasCalculatedReward]

SetDlg(d) ==
  /\ isOpen' = d.isOpen
  /\ isSubmitting' = d.isSubmitting
  /\ error' = d.error
  /\ selectedReward' = d.selectedReward
  /\ hasCalculatedReward' = d.hasCalculatedReward

\* useEffect(..., [isOpen, subscription, hasExistingReward]): reset when the
\* dialog is open with a subscription
OpenEffect(d, sub, existing) ==
  IF d.isOpen /\ sub # NullSub
  THEN [d EXCEPT !.hasCalculatedReward = existing, !.selectedReward = Null, !.error = Null]
  ELSE d

\* useEffect(..., [isOpen]): reset when the dialog is closed
CloseEffect(d) ==
  IF ~d.isOpen
  THEN [d EXCEPT !.hasCalculatedReward = FALSE, !.selectedReward = Null, !.error = Null]
  ELSE d

\* the parent's onClose: the dialog is dismissed
OnClose(d) == [d EXCEPT !.isOpen = FALSE]

\* handleClose, followed by the effects of the render it causes
HandleClose(d) ==
  LET d1 == [d EXCEPT !.error = Null, !.isSubmitting = FALSE, !.selectedReward = Null]
      d2 == OnClose(d1)
  IN  IF d2.isOpen # d.isOpen THEN CloseEffect(d2) ELSE d2

\* ------------------------------------------------------------------------
\* handleConfirm
\* ------------------------------------------------------------------------
NoArgs == [rewardId |-> Null, subscription_id |-> UndefinedId, discount_percentage |-> Undefined]
\* nothing was thrown
NoThrow == [isError |-> FALSE, message |-> "none"]

ResolveDiscountNaNAsZero(r) ==
  IF r = Null THEN Undefined
  ELSE LET v == DiscountOf[r]
           discount == IF v.isString THEN ParseFloat(v.str) ELSE v.num
       IN  IF IsNaN(discount) THEN 0 ELSE discount

\* let discountPercentage ... isNaN(discount) ? undefined : discount
ResolveDiscount(r) ==
  IF r = Null THEN Undefined
  ELSE LET v == DiscountOf[r]
           discount == IF v.isString THEN ParseFloat(v.str) ELSE v.num
       IN  IF IsNaN(discount) THEN Undefined ELSE discount

ShouldApplyRewardIgnoringId(r, newId, discount) ==
  r # Null /\ discount # Undefined

\* if (selectedReward && newSubscriptionId && discountPercentage !== undefined)
ShouldApplyReward(r, newId, discount) ==
  r # Null /\ newId # UndefinedId /\ discount # Undefined

\* the invocation up to `await onConfirm(discountPercentage)`
StartCall(sub, r) ==
  [sub |-> sub.id, reward |-> r, discount |-> ResolveDiscount(r),
   renewArg |-> ResolveDiscount(r), renew |-> "pending", newId |-> UndefinedId,
   apply |-> "none", applyArgs |-> NoArgs, renewCalls |-> 1, applyCalls |-> 0,
   calledOnClose |-> FALSE, err |-> NoThrow]

\* the invocation has returned: its closure (the captured reward, the locals
\* and the arguments it passed) is gone, the calls it made remain on record
Returned(c) ==
  [c EXCEPT !.reward = Null, !.discount = Undefined, !.renewArg = Undefined,
            !.applyArgs = NoArgs]

OnRenewalResolvedOnlyIfOpen(c, newId) ==
  IF isOpen /\ ShouldApplyReward(c.reward, newId, c.discount)
  THEN [c EXCEPT !.renew = "ok", !.newId = newId, !.apply = "pending",
                 !.applyCalls = @ + 1,
                 !.applyArgs = [rewardId |-> c.reward, subscription_id |-> newId,
                                discount_percentage |-> c.discount]]
  ELSE Returned([c EXCEPT !.renew = "ok", !.newId = newId, !.calledOnClose = TRUE])

\* after onConfirm resolved with newId: apply the reward, or close
OnRenewalResolved(c, newId) ==
  IF ShouldApplyReward(c.reward, newId, c.discount)
  THEN [c EXCEPT !.renew = "ok", !.newId = newId, !.apply = "pending",
                 !.applyCalls = @ + 1,
                 !.applyArgs = [rewardId |-> c.reward, subscription_id |-> newId,
                                discount_percentage |-> c.discount]]
  ELSE Returned([c EXCEPT !.renew = "ok", !.newId = newId, !.calledOnClose = TRUE])

OnApplyRejectedRetry(c) ==
  IF c.applyCalls < 2
  THEN [c EXCEPT !.applyCalls = @ + 1]
  ELSE Returned([c EXCEPT !.apply = "failed", !.calledOnClose = TRUE])

\* catch (rewardError) {...}; handleClose()
OnApplyRejected(c) ==
  Returned([c EXCEPT !.apply = "failed", !.calledOnClose = TRUE])

AfterRenewalRejectedClosing(d, thrown) ==
  HandleClose([d EXCEPT !.error = IF thrown.isError THEN thrown.message ELSE GenericRenewError])

\* catch (err) { setError(...) } finally { setIsSubmitting(false) }
AfterRenewalRejected(d, thrown) ==
  [d EXCEPT !.error = IF thrown.isError THEN thrown.message ELSE GenericRenewError,
            !.isSubmitting = FALSE]

\* catch (rewardError) { setError(warning) }; handleClose(); finally
AfterApplyRejected(d) ==
  [HandleClose([d EXCEPT !.error = RewardWarning]) EXCEPT !.isSubmitting = FALSE]

\* handleClose(); finally { setIsSubmitting(false) }
AfterSuccess(d) == [HandleClose(d) EXCEPT !.isSubmitting = FALSE]

\* ------------------------------------------------------------------------
\* Initial state: the component mounted with the dialog closed
\* ------------------------------------------------------------------------
InitDialog ==
  /\ isOpen = FALSE
  /\ subscription = NullSub
  /\ isLoadingWired \in BOOLEAN
  /\ hasExistingReward = FALSE
  /\ isSubmitting = FALSE
  /\ error = Null
  /\ selectedReward = Null
  /\ hasCalculatedReward = FALSE
  /\ calls = <<>>

\* ------------------------------------------------------------------------
\* Actions
\* ------------------------------------------------------------------------
\* the parent opens the dialog for a subscription
Open ==
  /\ ~isOpen
  /\ \E s \in Subscriptions \cup {NullSub}, existing \in BOOLEAN :
       /\ subscription' = s
       /\ hasExistingReward' = existing
       /\ SetDlg(OpenEffect([Dlg EXCEPT !.isOpen = TRUE], s, existing))
  /\ UNCHANGED <<isLoadingWired, calls>>
  /\ UNCHANGED outsideDialog

\* a background refetch of the subscription hands the dialog a new object
SubscriptionRefetched ==
  /\ subscription # NullSub
  /\ \E s \in Subscriptions :
       /\ s.id = subscription.id
       /\ subscription' = s
       /\ SetDlg(OpenEffect(Dlg, s, hasExistingReward))
  /\ UNCHANGED <<isLoadingWired, hasExistingReward, calls>>
  /\ UNCHANGED outsideDialog

\* a refetch of the subscription's rewards changes hasExistingReward
RewardsRefetched ==
  /\ subscription # NullSub
  /\ hasExistingReward' = ~hasExistingReward
  /\ SetDlg(OpenEffect(Dlg, subscription, hasExistingReward'))
  /\ UNCHANGED <<isLoadingWired, subscription, calls>>
  /\ UNCHANGED outsideDialog

\* onCalculationSuccess of the tracker
OnCalculationSuccess ==
  /\ DialogRendered
  /\ ~hasCalculatedReward
  /\ hasCalculatedReward' = TRUE
  /\ UNCHANGED <<isOpen, subscription, isLoadingWired, hasExistingReward,
                 isSubmitting, error, selectedReward, calls>>
  /\ UNCHANGED outsideDialog

\* onSelect={setSelectedReward} of the RewardSelector
SelectReward ==
  /\ DialogRendered
  /\ RewardSelectorShown
  /\ \E r \in RewardIds \cup {Null} :
       /\ r # selectedReward
       /\ selectedReward' = r
  /\ UNCHANGED <<isOpen, subscription, isLoadingWired, hasExistingReward,
                 isSubmitting, error, hasCalculatedReward, calls>>
  /\ UNCHANGED outsideDialog

\* click on "Confirmar Renovacion": handleConfirm up to the first await
Confirm ==
  /\ DialogRendered
  /\ ~ConfirmDisabled
  /\ Len(calls) < MaxConfirms
  /\ calls' = Append(calls, StartCall(subscription, selectedReward))
  /\ SetDlg([Dlg EXCEPT !.error = Null, !.isSubmitting = TRUE])
  /\ UNCHANGED <<subscription, isLoadingWired, hasExistingReward>>
  /\ UNCHANGED outsideDialog

\* onConfirm resolves with the id of the renewed subscription (or undefined)
RenewalResolved ==
  /\ UNCHANGED outsideDialog
  /\ \E i \in 1..Len(calls), newId \in NewIds \cup {UndefinedId} :
       /\ calls[i].renew = "pending"
       /\ calls' = [calls EXCEPT ![i] = OnRenewalResolved(calls[i], newId)]
       /\ IF calls'[i].apply = "pending"
          THEN SetDlg(Dlg)
          ELSE SetDlg(AfterSuccess(Dlg))
       /\ UNCHANGED <<subscription, isLoadingWired, hasExistingReward>>

\* onConfirm rejects
RenewalRejected ==
  /\ UNCHANGED outsideDialog
  /\ \E i \in 1..Len(calls), thrown \in Thrown :
       /\ calls[i].renew = "pending"
       /\ calls' = [calls EXCEPT ![i] = Returned([calls[i] EXCEPT !.renew = "failed", !.err = thrown])]
       /\ SetDlg(AfterRenewalRejected(Dlg, thrown))
       /\ UNCHANGED <<subscription, isLoadingWired, hasExistingReward>>

\* applyRewardMutation.mutateAsync resolves
ApplyResolved ==
  /\ UNCHANGED outsideDialog
  /\ \E i \in 1..Len(calls) :
       /\ calls[i].apply = "pending"
       /\ calls[i].renew = "ok"
       /\ calls' = [calls EXCEPT ![i] = Returned([calls[i] EXCEPT !.apply = "ok", !.calledOnClose = TRUE])]
       /\ SetDlg(AfterSuccess(Dlg))
       /\ UNCHANGED <<subscription, isLoadingWired, hasExistingReward>>

\* applyRewardMutation.mutateAsync rejects
ApplyRejected ==
  /\ UNCHANGED outsideDialog
  /\ \E i \in 1..Len(calls) :
       /\ calls[i].apply = "pending"
       /\ calls[i].renew = "ok"
       /\ calls' = [calls EXCEPT ![i] = OnApplyRejected(calls[i])]
       /\ SetDlg(AfterApplyRejected(Dlg))
       /\ UNCHANGED <<subscription, isLoadingWired, hasExistingReward>>

\* the Modal's own close control (onClose={handleClose})
ModalClose ==
  /\ DialogRendered
  /\ SetDlg(HandleClose(Dlg))
  /\ UNCHANGED <<subscription, isLoadingWired, hasExistingReward, calls>>
  /\ UNCHANGED outsideDialog

\* click on "Cancelar"
Cancel ==
  /\ DialogRendered
  /\ ~CancelDisabled
  /\ SetDlg(HandleClose(Dlg))
  /\ UNCHANGED <<subscription, isLoadingWired, hasExistingReward, calls>>
  /\ UNCHANGED outsideDialog

\* ------------------------------------------------------------------------
\* Properties of the renewal dialog
\* ------------------------------------------------------------------------
Call(i) == calls[i]
CallIds == 1..Len(calls)

\* C1: within one confirmation the apply-reward call is issued only after the
\* renewal call completed successfully and returned its subscription id; the
\* two calls are never in flight together, and after a failed renewal the
\* apply-reward call is never issued.
C1_ApplyOnlyAfterRenewal ==
  \A i \in CallIds :
    /\ (Call(i).apply # "none" \/ Call(i).applyCalls > 0)
         => (Call(i).renew = "ok" /\ Call(i).newId # UndefinedId)
    /\ ~(Call(i).renew = "pending" /\ Call(i).apply = "pending")
    /\ Call(i).renew = "failed" => (Call(i).apply = "none" /\ Call(i).applyCalls = 0)

C1_Witness ==
  \E i \in CallIds :
    Call(i).apply = "pending" /\ Call(i).renew = "ok" /\ Call(i).newId \in NewIds

\* C2: when the renewal succeeded and apply-reward failed, the warning
\* "renewed but marking the reward failed" is the message the dialog presents
\* once the confirm handler has finished.
C2_WarningPresented ==
  [][\A i \in CallIds :
       (Call(i).apply = "pending" /\ calls'[i].apply = "failed")
         => error' = RewardWarning]_vars

\* C3: for one confirmation the renewal call is invoked exactly once and the
\* apply-reward call at most once; a failed apply-reward causes no retry of
\* either call and leaves the renewal as it succeeded.
C3_CallsAtMostOnce ==
  \A i \in CallIds :
    /\ Call(i).renewCalls = 1
    /\ Call(i).applyCalls <= 1
    /\ Call(i).apply = "failed"
         => (Call(i).renew = "ok" /\ Call(i).applyCalls = 1 /\ Call(i).newId \in NewIds)

C3_Witness ==
  \E i \in CallIds : Call(i).apply = "failed" /\ Call(i).renewCalls = 1

C5_NoSecondRenewalWhilePending ==
  Cardinality({i \in CallIds : Call(i).renew = "pending"}) <= 1

\* the discount the rewards of the model stand for
ExpectedDiscount(r) ==
  CASE r = "r1" -> 20
    [] r = "r2" -> 15
    [] OTHER -> Undefined

\* C6: apply-reward is invoked exactly when a reward was selected at the
\* confirmation, the renewal returned a subscription id and a discount was
\* resolved from that reward, and then with that reward's id, the returned id
\* and that discount; a reward with a non-numeric discount_percentage gives
\* a renewal without discount and no apply-reward call.
C6_ApplyRewardCondition ==
  [][/\ Len(calls') > Len(calls)
          => calls'[Len(calls')].renewArg = (IF selectedReward = Null THEN Undefined
                                              ELSE ExpectedDiscount(selectedReward))
     /\ \A i \in CallIds :
          (Call(i).renew = "pending" /\ calls'[i].renew = "ok")
            => /\ calls'[i].applyCalls = 1
                    <=> /\ Call(i).reward # Null
                        /\ calls'[i].newId # UndefinedId
                        /\ ExpectedDiscount(Call(i).reward) # Undefined
               /\ calls'[i].applyCalls = 1
                    => calls'[i].applyArgs =
                         [rewardId |-> Call(i).reward,
                          subscription_id |-> calls'[i].newId,
                          discount_percentage |-> ExpectedDiscount(Call(i).reward)]
               /\ calls'[i].applyCalls = 0 => calls'[i].apply = "none"]_vars

C6_Witness ==
  \E i \in CallIds :
    /\ Call(i).apply = "pending"
    /\ Call(i).applyArgs = [rewardId |-> "r2", subscription_id |-> "n1",
                            discount_percentage |-> 15]

\* renewable by the rule of the renewal-eligibility check
Renewable(s) ==
  /\ s # NullSub
  /\ \/ s.status = "expired"
     \/ s.status = "active" /\ CanRenewByDaysRemaining(s).canRenew

\* C7: an expired subscription is renewable whatever its remaining days, an
\* active one exactly when the days-remaining policy is satisfied, any other
\* status (or no subscription) never; the confirm control is disabled for a
\* subscription that is not renewable and no renewal call is issued for it.
C7_RenewableByStatus ==
  /\ [](RenewalCheck(subscription).canRenew <=> Renewable(subscription))
  /\ [](~Renewable(subscription) => ConfirmDisabled)
  /\ [][Len(calls') > Len(calls) => Renewable(subscription)]_vars

C7_Witness ==
  /\ DialogRendered
  /\ subscription.status = "expired" /\ subscription.daysRemaining > RenewalWindowDays
  /\ \E i \in CallIds : Call(i).renew = "pending"

Settles(i) ==
  \/ Call(i).renew = "pending" /\ calls'[i].renew \in {"ok", "failed"}
  \/ Call(i).apply = "pending" /\ calls'[i].apply \in {"ok", "failed"}

\* C12: closing the dialog after the confirm action cancels nothing: no step
\* drops or alters an invocation whose call is in flight other than the
\* arrival of that call's response; a renewal that resolves while the dialog
\* is dismissed still issues the apply-reward call when it is due; and the
\* handling of a response that arrives while the dialog is dismissed leaves
\* the dialog closed.
C12_CloseDoesNotCancel ==
  [][/\ Len(calls') >= Len(calls)
     /\ \A i \in CallIds :
          /\ (Call(i).renew = "pending" \/ Call(i).apply = "pending")
               => (calls'[i] = Call(i) \/ Settles(i))
          /\ (~isOpen /\ Call(i).renew = "pending" /\ calls'[i].renew = "ok"
                /\ ShouldApplyReward(Call(i).reward, calls'[i].newId, Call(i).discount))
               => (calls'[i].apply = "pending" /\ calls'[i].applyCalls = 1)
          /\ (~isOpen /\ Settles(i)) => ~isOpen']_vars

C12_Witness ==
  /\ ~isOpen
  /\ \E i \in CallIds : Call(i).renew = "ok" /\ Call(i).apply = "pending"

\* C25: a response that arrives for a confirmation made in an earlier
\* showing of the dialog (here: the dialog now shows another subscription
\* than the one the confirmation was for) changes nothing in the dialog that
\* is open now: it stays open and keeps its selected reward, its error and
\* its submitting flag.
C25_StaleCompletionIgnored ==
  [][\A i \in CallIds :
       (/\ isOpen
        /\ subscription # NullSub
        /\ Call(i).sub # subscription.id
        /\ Settles(i))
         => /\ isOpen'
            /\ selectedReward' = selectedReward
            /\ error' = error
            /\ isSubmitting' = isSubmitting]_vars

\* C27: while the dialog stays open, a background refetch that hands it a
\* changed subscription object or flips hasExistingReward (no click, no
\* response of a confirmation) leaves the selected reward and the displayed
\* error as they are.
C27_RefetchKeepsSelection ==
  [][(/\ DialogRendered
      /\ isOpen'
      /\ calls' = calls
      /\ subscription' # subscription \/ hasExistingReward' # hasExistingReward)
       => /\ selectedReward' = selectedReward
          /\ error' = error]_vars

\* ------------------------------------------------------------------------
\* Reward tracker (RewardCalculationStatus)
\* ------------------------------------------------------------------------
\* RewardStatus enum
RewardStates == {"pending", "applied", "expired"}
\* a reward without expires_at
NoExpiry == -1
ExpiryValues == {NoExpiry, 1}
RewardRecords == [status : RewardStates, expires_at : ExpiryValues]
RewardLists == UNION {[1..n -> RewardRecords] : n \in 0..MaxRewards}

\* RewardEligibilityResponse, and null
AttendanceCounts == {19, 21}
NoResult == [isNull |-> TRUE, eligible |-> FALSE, attendance_count |-> 0]
EligibilityResponses == [isNull : {FALSE}, eligible : BOOLEAN, attendance_count : AttendanceCounts]

\* isRewardExpired at the instant t
isRewardExpired(reward, t) ==
  IF reward.expires_at = NoExpiry THEN FALSE ELSE reward.expires_at < t

isRewardAvailable(reward, t) ==
  reward.status = "pending" /\ ~isRewardExpired(reward, t)

filterAvailableRewards(list, t) ==
  SelectSeq(list, LAMBDA r : isRewardAvailable(r, t))

StatusOf(type, count) == [type |-> type, attendanceCount |-> count]

DeriveRewardStatusNotEligibleFirst(list, has, loading, err, last, t) ==
  IF loading THEN StatusOf("loading", 0)
  ELSE IF err THEN StatusOf("error", 0)
  ELSE LET availableRewards == IF has THEN filterAvailableRewards(list, t) ELSE <<>>
           appliedRewards == IF has THEN SelectSeq(list, LAMBDA r : r.status = "applied") ELSE <<>>
       IN  IF Len(availableRewards) > 0 THEN StatusOf("calculated", 0)
           ELSE IF ~last.isNull /\ ~last.eligible
                THEN StatusOf("not-eligible", last.attendance_count)
           ELSE IF Len(appliedRewards) > 0 THEN StatusOf("applied", 0)
           ELSE StatusOf("not-calculated", 0)

\* the body of the rewardStatus memo, new Date() being t
DeriveRewardStatus(list, has, loading, err, last, t) ==
  IF loading THEN StatusOf("loading", 0)
  ELSE IF err THEN StatusOf("error", 0)
  ELSE LET availableRewards == IF has THEN filterAvailableRewards(list, t) ELSE <<>>
           appliedRewards == IF has THEN SelectSeq(list, LAMBDA r : r.status = "applied") ELSE <<>>
       IN  IF Len(availableRewards) > 0 THEN StatusOf("calculated", 0)
           ELSE IF Len(appliedRewards) > 0 THEN StatusOf("applied", 0)
           ELSE IF ~last.isNull /\ ~last.eligible
                THEN StatusOf("not-eligible", last.attendance_count)
           ELSE StatusOf("not-calculated", 0)

TrackerViewButtonWhenApplied(rs) ==
  IF rs.type = "loading" THEN "loading"
  ELSE IF rs.type = "error" THEN "error"
  ELSE IF rs.type = "calculated" THEN "calculated"
  ELSE IF rs.type = "not-eligible" THEN "not-eligible"
  ELSE "calculate"

\* what the component returns: one panel per status, the calculate button last
TrackerView(rs) ==
  IF rs.type = "loading" THEN "loading"
  ELSE IF rs.type = "error" THEN "error"
  ELSE IF rs.type = "calculated" THEN "calculated"
  ELSE IF rs.type = "applied" THEN "applied"
  ELSE IF rs.type = "not-eligible" THEN "not-eligible"
  ELSE "calculate"

\* the CalculateRewardButton is rendered, and enabled while no call is pending
CalculateButtonRendered == TrackerView(rewardStatus) = "calculate"
CalculateEnabled == CalculateButtonRendered /\ ~calcPending

\* the render after a state change: the memo is recomputed when one of its
\* dependencies [rewards, isLoading, error, lastCalculationResult] changed
Rerender(depsChanged) ==
  IF depsChanged
  THEN /\ rewardStatus' = DeriveRewardStatus(rewards', hasData', rewardsLoading',
                                             rewardsError', lastCalculationResult', now')
       /\ derivedAt' = now'
  ELSE UNCHANGED <<rewardStatus, derivedAt>>

InitTracker ==
  /\ rewards = <<>>
  /\ hasData = FALSE
  /\ rewardsLoading = TRUE
  /\ rewardsError = FALSE
  /\ fetching = TRUE
  /\ lastCalculationResult = NoResult
  /\ calcPending = FALSE
  /\ now = 0
  /\ rewardStatus = StatusOf("loading", 0)
  /\ derivedAt = 0

\* the fetch of the subscription's rewards returns a list
FetchSucceeded ==
  /\ fetching
  /\ \E list \in RewardLists :
       /\ rewards' = list
       /\ hasData' = TRUE
       /\ rewardsLoading' = FALSE
       /\ rewardsError' = FALSE
       /\ fetching' = FALSE
       /\ UNCHANGED <<lastCalculationResult, calcPending, now>>
       /\ Rerender(<<rewards', hasData', rewardsLoading', rewardsError'>>
                     # <<rewards, hasData, rewardsLoading, rewardsError>>)
  /\ UNCHANGED outsideTracker

\* the fetch fails: the error is kept beside the data fetched before
FetchFailed ==
  /\ fetching
  /\ rewardsError' = TRUE
  /\ rewardsLoading' = FALSE
  /\ fetching' = FALSE
  /\ UNCHANGED <<rewards, hasData, lastCalculationResult, calcPending, now>>
  /\ Rerender(<<rewardsLoading', rewardsError'>> # <<rewardsLoading, rewardsError>>)
  /\ UNCHANGED outsideTracker

\* refetch(): by the query going stale, or by a caller
Refetch ==
  /\ ~fetching
  /\ fetching' = TRUE
  /\ UNCHANGED <<rewards, hasData, rewardsLoading, rewardsError,
                 lastCalculationResult, calcPending, now, rewardStatus, derivedAt>>
  /\ UNCHANGED outsideTracker

\* click on "Calcular Recompensa": handleCalculate up to the await
StartCalculate ==
  /\ CalculateEnabled
  /\ calcPending' = TRUE
  /\ UNCHANGED <<rewards, hasData, rewardsLoading, rewardsError, fetching,
                 lastCalculationResult, now, rewardStatus, derivedAt>>
  /\ UNCHANGED outsideTracker

\* the eligibility call resolves: handleCalculationResult, then onSuccess
CalculateResolved ==
  /\ calcPending
  /\ \E result \in EligibilityResponses :
       /\ lastCalculationResult' = result
       /\ fetching' = IF result.eligible THEN TRUE ELSE fetching
  /\ calcPending' = FALSE
  /\ UNCHANGED <<rewards, hasData, rewardsLoading, rewardsError, now>>
  /\ Rerender(TRUE)
  /\ UNCHANGED outsideTracker

\* the eligibility call rejects: a toast, no state of the tracker changes
CalculateRejected ==
  /\ calcPending
  /\ calcPending' = FALSE
  /\ UNCHANGED <<rewards, hasData, rewardsLoading, rewardsError, fetching,
                 lastCalculationResult, now, rewardStatus, derivedAt>>
  /\ UNCHANGED outsideTracker

\* time passes; nothing is rendered
Tick ==
  /\ now < MaxTime
  /\ now' = now + 1
  /\ UNCHANGED <<rewards, hasData, rewardsLoading, rewardsError, fetching,
                 lastCalculationResult, calcPending, rewardStatus, derivedAt>>
  /\ UNCHANGED outsideTracker

\* ------------------------------------------------------------------------
\* Properties of the reward tracker
\* ------------------------------------------------------------------------
\* the rewards were fetched and the query holds no error
FetchedWithoutError == hasData /\ ~rewardsLoading /\ ~rewardsError

\* a reward of the list is pending and unexpired at the instant t
SomePendingUnexpired(t) ==
  \E i \in 1..Len(rewards) :
    /\ rewards[i].status = "pending"
    /\ rewards[i].expires_at = NoExpiry \/ rewards[i].expires_at >= t

SomeApplied == \E i \in 1..Len(rewards) : rewards[i].status = "applied"

\* C9: with the rewards fetched without error the tracker's state follows the
\* precedence Calculated (a pending, unexpired reward) > Applied (an applied
\* reward) > NotEligible (the last local calculation returned eligible=false)
\* > NotCalculated, expiry being judged when the state is derived.
C9_DerivationPrecedence ==
  FetchedWithoutError =>
    rewardStatus.type =
      (IF SomePendingUnexpired(derivedAt) THEN "calculated"
       ELSE IF SomeApplied THEN "applied"
       ELSE IF ~lastCalculationResult.isNull /\ ~lastCalculationResult.eligible
            THEN "not-eligible"
       ELSE "not-calculated")

C9_Witness ==
  /\ FetchedWithoutError
  /\ ~SomePendingUnexpired(derivedAt) /\ SomeApplied
  /\ ~lastCalculationResult.isNull /\ ~lastCalculationResult.eligible
  /\ rewardStatus.type = "applied"

\* C10: with the rewards [{status: applied}] the tracker reports Applied,
\* also when the last eligibility call returned eligible=true, and in every
\* state where it reports Applied the calculate action is not offered and no
\* eligibility calculation is started.
C10_AppliedBlocksCalculation ==
  /\ []((FetchedWithoutError /\ Len(rewards) = 1 /\ rewards[1].status = "applied")
          => rewardStatus.type = "applied")
  /\ [](rewardStatus.type = "applied" => (~CalculateButtonRendered /\ ~CalculateEnabled))
  /\ [][(calcPending' /\ ~calcPending) => rewardStatus.type # "applied"]_vars

C10_Witness ==
  /\ FetchedWithoutError
  /\ Len(rewards) = 1 /\ rewards[1].status = "applied"
  /\ ~lastCalculationResult.isNull /\ lastCalculationResult.eligible
  /\ rewardStatus.type = "applied"
  /\ ~CalculateEnabled

\* C11: NotEligible is not terminal: in every state where the tracker reports
\* NotEligible the user is offered the eligibility calculation again (so that
\* a new attempt returning eligible=true can lead to Calculated).
C11_RetryOfferedWhenNotEligible ==
  rewardStatus.type = "not-eligible" => CalculateButtonRendered

\* ------------------------------------------------------------------------
\* Query cache (useSubscriptions.ts, subscriptionKeys)
\* ------------------------------------------------------------------------
ClientIds == {"c1", "c2"}
CachedIds == {"s1", "s2"}
CachedStatus == {"active", "canceled"}
\* a Subscription, as far as the cache handlers read it
CachedSubscriptions == [id : CachedIds, status : CachedStatus]
\* the client and the subscription the mutations are started for; the other
\* client and the other subscription are the bystanders
MutatedClients == {"c1"}
MutatedIds == {"s1"}
\* the records a fetch answers, and the records a mutation answers
FetchedSubscriptions == {x \in CachedSubscriptions : x.status = "active"}
ReturnedSubscriptions == {x \in CachedSubscriptions : x.status = "canceled"}
NoSubscription == [id |-> Null, status |-> "none"]
FilterSets == {"f1"}

\* subscriptionKeys
allKey == <<"subscriptions">>
listsKey == allKey \o <<"list">>
listKey(clientId) == listsKey \o <<clientId>>
allSubscriptionsKey(filters) == allKey \o <<"all", filters>>
detailsKey == allKey \o <<"detail">>
detailKey(id) == detailsKey \o <<id>>
activeKey(clientId) == listKey(clientId) \o <<"active">>
paymentsKey(subscriptionId) == <<"payments", subscriptionId>>
paymentStatsKey(subscriptionId) == <<"paymentStats", subscriptionId>>
\* the rewards of a subscription (useRewardsBySubscription)
rewardsKey(subscriptionId) == <<"rewards", "subscription", subscriptionId>>

SubscriptionQueryKeys ==
  {listKey(c) : c \in ClientIds} \cup {activeKey(c) : c \in ClientIds}
    \cup {detailKey(s) : s \in CachedIds}
    \cup {allSubscriptionsKey(f) : f \in FilterSets}

QueryKeys ==
  SubscriptionQueryKeys
    \cup {paymentStatsKey(s) : s \in CachedIds}
    \cup {paymentsKey(s) : s \in MutatedIds}
    \cup {rewardsKey(s) : s \in MutatedIds}

\* a query of the cache: its data (undefined when ~hasData), the mark left by
\* invalidateQueries, and whether a fetch of it is in flight
NoQuery == [hasData |-> FALSE, data |-> <<>>, isInvalidated |-> FALSE, isFetching |-> FALSE]
QueryExists(q, key) == q[key].hasData \/ q[key].isFetching
ExistingKeys(q) == {k \in QueryKeys : QueryExists(q, k)}

MatchesQueryKeyExactly(queryKey, key) == queryKey = key

\* a query matches a filter key when the filter key is a prefix of its key
MatchesQueryKey(queryKey, key) ==
  /\ Len(queryKey) <= Len(key)
  /\ \A i \in 1..Len(queryKey) : key[i] = queryKey[i]

\* invalidateQueries({queryKey}): every matching query is marked invalidated,
\* and those with a mounted observer (observed) are refetched
InvalidateQueries(q, queryKey, observed) ==
  [k \in QueryKeys |->
     IF MatchesQueryKey(queryKey, k) /\ QueryExists(q, k)
     THEN [q[k] EXCEPT !.isInvalidated = TRUE, !.isFetching = @ \/ k \in observed]
     ELSE q[k]]

\* setQueryData(key, value): the data is stored as a successful result, which
\* clears the invalidation mark; a fetch in flight goes on
SetQueryData(q, key, value) ==
  [q EXCEPT ![key] = [hasData |-> TRUE, data |-> value, isInvalidated |-> FALSE,
                      isFetching |-> q[key].isFetching]]

\* the argument of an updater (old: Subscription[] = []) => ...
OldOrEmpty(q, key) == IF q[key].hasData THEN q[key].data ELSE <<>>

\* removeQueries({queryKey})
RemoveQueries(q, queryKey) ==
  [k \in QueryKeys |-> IF MatchesQueryKey(queryKey, k) THEN NoQuery ELSE q[k]]

\* old.some(s => s.id === id)
SomeWithId(old, id) == \E i \in 1..Len(old) : old[i].id = id

\* old.map(s => s.id === id ? data : s)
ReplaceById(old, id, data) ==
  [i \in 1..Len(old) |-> IF old[i].id = id THEN data ELSE old[i]]

OnCreateSuccessAllLists(q, clientId, data, observed) ==
  LET q1 == InvalidateQueries(q, listsKey, observed)
      q2 == SetQueryData(q1, detailKey(data.id), <<data>>)
      old == OldOrEmpty(q2, listKey(clientId))
  IN  SetQueryData(q2, listKey(clientId),
                   IF SomeWithId(old, data.id) THEN old ELSE <<data>> \o old)

\* onSuccess of useCreateSubscription
OnCreateSuccess(q, clientId, data, observed) ==
  LET q1 == InvalidateQueries(q, listKey(clientId), observed)
      q2 == InvalidateQueries(q1, activeKey(clientId), observed)
      q3 == SetQueryData(q2, detailKey(data.id), <<data>>)
      old == OldOrEmpty(q3, listKey(clientId))
  IN  SetQueryData(q3, listKey(clientId),
                   IF SomeWithId(old, data.id) THEN old ELSE <<data>> \o old)

\* onSuccess of useRenewSubscription
OnRenewSuccess(q, clientId, subscriptionId, data, observed) ==
  LET q1 == SetQueryData(q, detailKey(subscriptionId), <<data>>)
      q2 == InvalidateQueries(q1, listKey(clientId), observed)
      q3 == InvalidateQueries(q2, activeKey(clientId), observed)
  IN  SetQueryData(q3, listKey(clientId),
                   ReplaceById(OldOrEmpty(q3, listKey(clientId)), subscriptionId, data))

OnCancelSuccessWithoutStats(q, clientId, subscriptionId, data, observed) ==
  LET q1 == SetQueryData(q, detailKey(subscriptionId), <<data>>)
      q2 == InvalidateQueries(q1, listKey(clientId), observed)
      q3 == InvalidateQueries(q2, activeKey(clientId), observed)
  IN  SetQueryData(q3, listKey(clientId),
                   ReplaceById(OldOrEmpty(q3, listKey(clientId)), subscriptionId, data))

\* onSuccess of useCancelSubscription
OnCancelSuccess(q, clientId, subscriptionId, data, observed) ==
  LET q1 == SetQueryData(q, detailKey(subscriptionId), <<data>>)
      q2 == InvalidateQueries(q1, listKey(clientId), observed)
      q3 == InvalidateQueries(q2, activeKey(clientId), observed)
      q4 == SetQueryData(q3, listKey(clientId),
                         ReplaceById(OldOrEmpty(q3, listKey(clientId)), subscriptionId, data))
  IN  InvalidateQueries(q4, paymentStatsKey(subscriptionId), observed)

\* onSuccess of useUpdateSubscription; clientId is optional
OnUpdateSuccess(q, clientId, subscriptionId, data, observed) ==
  LET q1 == SetQueryData(q, detailKey(subscriptionId), <<data>>)
  IN  IF clientId # UndefinedId
      THEN InvalidateQueries(InvalidateQueries(q1, listKey(clientId), observed),
                             activeKey(clientId), observed)
      ELSE InvalidateQueries(q1, listsKey, observed)

\* onSuccess of useDeleteSubscription; clientId is optional
OnDeleteSuccess(q, clientId, subscriptionId, observed) ==
  LET q1 == RemoveQueries(q, detailKey(subscriptionId))
  IN  IF clientId # UndefinedId
      THEN InvalidateQueries(InvalidateQueries(q1, listKey(clientId), observed),
                             activeKey(clientId), observed)
      ELSE InvalidateQueries(q1, listsKey, observed)

\* onSuccess of useExpireSubscriptions
OnExpireSuccess(q, observed) == InvalidateQueries(q, allKey, observed)

\* onSuccess of useActivateSubscriptions
OnActivateSuccess(q, observed) == InvalidateQueries(q, allKey, observed)

\* what the backend can answer to the fetch of a query: the subscriptions
\* s1 and s2 are subscriptions of the client c1
OwnedBy(clientId) == IF clientId = "c1" THEN FetchedSubscriptions ELSE {}

SubscriptionListsOf(records) ==
  {l \in UNION {[1..n -> records] : n \in 0..MaxListLen} :
     \A i, j \in 1..Len(l) : l[i].id = l[j].id => i = j}

ServerData(key) ==
  IF \E c \in ClientIds : key = listKey(c)
  THEN SubscriptionListsOf(OwnedBy(CHOOSE c \in ClientIds : key = listKey(c)))
  ELSE IF \E c \in ClientIds : key = activeKey(c)
  THEN {<<>>} \cup {<<r>> : r \in OwnedBy(CHOOSE c \in ClientIds : key = activeKey(c))}
  ELSE IF \E x \in CachedIds : key = detailKey(x)
  THEN {<<r>> : r \in {x \in FetchedSubscriptions : detailKey(x.id) = key}}
  ELSE IF \E f \in FilterSets : key = allSubscriptionsKey(f)
  THEN {<<>>} \cup {<<r>> : r \in FetchedSubscriptions}
  ELSE {<<>>}

Mutation(kind, clientId, subscriptionId, data, ok) ==
  [kind |-> kind, clientId |-> clientId, subscriptionId |-> subscriptionId,
   data |-> data, ok |-> ok]

InitCache ==
  /\ queries = [k \in QueryKeys |-> NoQuery]
  /\ lastMutation = Mutation("none", UndefinedId, UndefinedId, NoSubscription, FALSE)
  /\ mutationCount = 0
  /\ fetchCount = 0

InFlight == Cardinality({k \in QueryKeys : queries[k].isFetching})

\* a hook of the key mounts, or its data went stale: the query is fetched
QueryMounted ==
  /\ fetchCount + InFlight < MaxFetches
  /\ \E k \in QueryKeys :
       /\ ~queries[k].isFetching
       /\ queries' = [queries EXCEPT ![k].isFetching = TRUE]
  /\ UNCHANGED <<lastMutation, mutationCount, fetchCount>>
  /\ UNCHANGED outsideCache

\* the fetch of a query resolves
QueryFetched ==
  /\ fetchCount < MaxFetches
  /\ \E k \in QueryKeys : \E value \in ServerData(k) :
       /\ queries[k].isFetching
       /\ queries' = [queries EXCEPT ![k] = [hasData |-> TRUE, data |-> value,
                                             isInvalidated |-> FALSE, isFetching |-> FALSE]]
  /\ fetchCount' = fetchCount + 1
  /\ UNCHANGED <<lastMutation, mutationCount>>
  /\ UNCHANGED outsideCache

\* the fetch of a query fails after its retries: the data stays
QueryFetchFailed ==
  /\ fetchCount < MaxFetches
  /\ \E k \in QueryKeys :
       /\ queries[k].isFetching
       /\ queries' = [queries EXCEPT ![k].isFetching = FALSE]
  /\ fetchCount' = fetchCount + 1
  /\ UNCHANGED <<lastMutation, mutationCount>>
  /\ UNCHANGED outsideCache

\* what every settled mutation records
Settled(m) ==
  /\ mutationCount < MaxMutations
  /\ mutationCount' = mutationCount + 1
  /\ lastMutation' = m
  /\ UNCHANGED fetchCount
  /\ UNCHANGED outsideCache

CreateSucceeded ==
  \E clientId \in MutatedClients, data \in ReturnedSubscriptions,
     observed \in {{}, ExistingKeys(queries)} :
    /\ queries' = OnCreateSuccess(queries, clientId, data, observed)
    /\ Settled(Mutation("create", clientId, data.id, data, TRUE))

RenewSucceeded ==
  \E clientId \in MutatedClients, subscriptionId \in MutatedIds, data \in ReturnedSubscriptions,
     observed \in {{}, ExistingKeys(queries)} :
    /\ queries' = OnRenewSuccess(queries, clientId, subscriptionId, data, observed)
    /\ Settled(Mutation("renew", clientId, subscriptionId, data, TRUE))

\* cancel and update answer with the record they were called for
CancelSucceeded ==
  \E clientId \in MutatedClients, subscriptionId \in MutatedIds, data \in ReturnedSubscriptions,
     observed \in {{}, ExistingKeys(queries)} :
    /\ data.id = subscriptionId
    /\ queries' = OnCancelSuccess(queries, clientId, subscriptionId, data, observed)
    /\ Settled(Mutation("cancel", clientId, subscriptionId, data, TRUE))

UpdateSucceeded ==
  \E clientId \in MutatedClients \cup {UndefinedId}, subscriptionId \in MutatedIds,
     data \in ReturnedSubscriptions, observed \in {{}, ExistingKeys(queries)} :
    /\ data.id = subscriptionId
    /\ queries' = OnUpdateSuccess(queries, clientId, subscriptionId, data, observed)
    /\ Settled(Mutation("update", clientId, subscriptionId, data, TRUE))

DeleteSucceeded ==
  \E clientId \in MutatedClients \cup {UndefinedId}, subscriptionId \in MutatedIds,
     observed \in {{}, ExistingKeys(queries)} :
    /\ queries' = OnDeleteSuccess(queries, clientId, subscriptionId, observed)
    /\ Settled(Mutation("delete", clientId, subscriptionId, NoSubscription, TRUE))

ExpireSucceeded ==
  \E observed \in {{}, ExistingKeys(queries)} :
    /\ queries' = OnExpireSuccess(queries, observed)
    /\ Settled(Mutation("expire", UndefinedId, UndefinedId, NoSubscription, TRUE))

ActivateSucceeded ==
  \E observed \in {{}, ExistingKeys(queries)} :
    /\ queries' = OnActivateSuccess(queries, observed)
    /\ Settled(Mutation("activate", UndefinedId, UndefinedId, NoSubscription, TRUE))

\* a mutation rejects: no hook has an onError, the cache is not touched
MutationFailed ==
  \E kind \in {"create", "renew", "cancel", "update", "delete", "expire", "activate"},
     clientId \in MutatedClients, subscriptionId \in MutatedIds :
    /\ UNCHANGED queries
    /\ Settled(Mutation(kind, clientId, subscriptionId, NoSubscription, FALSE))

\* ------------------------------------------------------------------------
\* Properties of the query cache
\* ------------------------------------------------------------------------
\* the step is the handling of a mutation of the kind that succeeded
MutationStep(kind) ==
  /\ mutationCount' = mutationCount + 1
  /\ lastMutation'.kind = kind
  /\ lastMutation'.ok

\* the query is marked invalidated, or is being refetched
Invalidated(q, key) == q[key].isInvalidated \/ q[key].isFetching

\* C13: when the renewal has succeeded, the cached queries of the affected
\* client are invalidated: the subscription queries (list, active slot; the
\* list may instead have been rewritten), the payment queries and the reward
\* queries of the renewed subscription.
C13_RenewalInvalidatesAll ==
  [][MutationStep("renew") =>
       LET c == lastMutation'.clientId
           s == lastMutation'.subscriptionId
       IN  /\ QueryExists(queries, listKey(c))
                => (Invalidated(queries', listKey(c)) \/ queries'[listKey(c)].hasData)
           /\ QueryExists(queries, activeKey(c)) => Invalidated(queries', activeKey(c))
           /\ QueryExists(queries, paymentsKey(s)) => Invalidated(queries', paymentsKey(s))
           /\ QueryExists(queries, rewardsKey(s)) => Invalidated(queries', rewardsKey(s))]_vars

\* C14: after cancelSubscription succeeds the detail entry of the subscription
\* holds the returned record, the client's active-subscription entry is
\* marked invalidated, the client's list is rewritten with the returned
\* record in the place of the cancelled one, and the paymentStats query of
\* the subscription is marked invalidated.
C14_CancelSynchronisesCache ==
  [][MutationStep("cancel") =>
       LET c == lastMutation'.clientId
           s == lastMutation'.subscriptionId
           d == lastMutation'.data
           old == OldOrEmpty(queries, listKey(c))
           new == queries'[listKey(c)]
       IN  /\ queries'[detailKey(s)].hasData /\ queries'[detailKey(s)].data = <<d>>
           /\ QueryExists(queries, activeKey(c)) => queries'[activeKey(c)].isInvalidated
           /\ new.hasData /\ Len(new.data) = Len(old)
           /\ \A i \in 1..Len(old) :
                new.data[i] = IF old[i].id = s THEN d ELSE old[i]
           /\ QueryExists(queries, paymentStatsKey(s))
                => queries'[paymentStatsKey(s)].isInvalidated]_vars

C14_Witness ==
  /\ lastMutation.kind = "cancel" /\ lastMutation.ok
  /\ queries[detailKey(lastMutation.subscriptionId)].data = <<lastMutation.data>>
  /\ queries[activeKey(lastMutation.clientId)].isInvalidated
  /\ queries[paymentStatsKey(lastMutation.subscriptionId)].isInvalidated

\* C15: after a renew mutation succeeds the detail entry of the subscription
\* holds the returned record, the entry of the client's cached list with the
\* id of the renewed subscription is replaced by the returned record while
\* every other entry is unchanged, and the client's list and active slot are
\* invalidated.
C15_RenewSynchronisesCache ==
  [][MutationStep("renew") =>
       LET c == lastMutation'.clientId
           s == lastMutation'.subscriptionId
           d == lastMutation'.data
           old == OldOrEmpty(queries, listKey(c))
           new == queries'[listKey(c)]
       IN  /\ queries'[detailKey(s)].hasData /\ queries'[detailKey(s)].data = <<d>>
           /\ new.hasData /\ Len(new.data) = Len(old)
           /\ \A i \in 1..Len(old) :
                new.data[i] = IF old[i].id = s THEN d ELSE old[i]
           /\ QueryExists(queries, listKey(c)) => Invalidated(queries', listKey(c))
           /\ QueryExists(queries, activeKey(c)) => Invalidated(queries', activeKey(c))]_vars

\* the number of entries of the list with the id
CountWithId(l, id) == Cardinality({i \in 1..Len(l) : l[i].id = id})

\* C16: after a create mutation succeeds the client's list and active slot
\* are invalidated, the detail entry under the id of the new record holds
\* the new record, and the client's cached list holds an entry with the id
\* of the new record exactly once.
C16_CreateSynchronisesCache ==
  [][MutationStep("create") =>
       LET c == lastMutation'.clientId
           d == lastMutation'.data
       IN  /\ QueryExists(queries, listKey(c)) => Invalidated(queries', listKey(c))
           /\ QueryExists(queries, activeKey(c)) => Invalidated(queries', activeKey(c))
           /\ queries'[detailKey(d.id)].hasData /\ queries'[detailKey(d.id)].data = <<d>>
           /\ queries'[listKey(c)].hasData
           /\ CountWithId(queries'[listKey(c)].data, d.id) = 1]_vars

\* C17: after a bulk expire or activate succeeds every cached subscription
\* query (the list and the active slot of each client, the all-subscriptions
\* query of each filter set, the detail of each subscription) is marked
\* invalidated, the key of each of them starting with the prefix that is
\* invalidated.
C17_BulkInvalidatesEverySubscriptionQuery ==
  /\ [](\A k \in SubscriptionQueryKeys : MatchesQueryKey(allKey, k))
  /\ [][(MutationStep("expire") \/ MutationStep("activate")) =>
          \A k \in SubscriptionQueryKeys :
            QueryExists(queries, k) => queries'[k].isInvalidated]_vars

C17_Witness ==
  /\ lastMutation.kind \in {"expire", "activate"} /\ lastMutation.ok
  /\ Cardinality({k \in SubscriptionQueryKeys :
                    queries[k].isInvalidated /\ Len(k) > Len(listsKey)}) >= 2

\* the entries a mutation for the client c and the subscription s may touch
KeyedBy(c, s) == {listKey(c), activeKey(c), detailKey(s), paymentStatsKey(s)}

\* C18: a successful create, renew or cancel for the client c and the
\* subscription s (for a create: the created one) changes no entry other
\* than the list of c, the active slot of c, the detail of s and the payment
\* stats of s, and a mutation that fails changes no entry.
C18_MutationFrame ==
  [][/\ (MutationStep("create") \/ MutationStep("renew") \/ MutationStep("cancel"))
          => \A k \in QueryKeys \ KeyedBy(lastMutation'.clientId, lastMutation'.subscriptionId) :
               queries'[k] = queries[k]
     /\ (mutationCount' = mutationCount + 1 /\ ~lastMutation'.ok)
          => queries' = queries]_vars

C18_Witness ==
  /\ lastMutation.kind \in {"create", "renew", "cancel"} /\ lastMutation.ok
  /\ queries[listKey(lastMutation.clientId)].hasData
  /\ \E c \in ClientIds \ {lastMutation.clientId} : queries[listKey(c)].hasData
  /\ \E s \in CachedIds \ {lastMutation.subscriptionId} : queries[detailKey(s)].hasData

\* ------------------------------------------------------------------------
\* Bulk operations of the subscriptions page (SubscriptionsPage.tsx)
\* ------------------------------------------------------------------------
\* texts are sequences of words
MayHaveCompleted ==
  <<"Error", "de", "conexion", "con", "el", "servidor.", "La", "operacion", "puede",
    "haberse", "completado.", "Por", "favor,", "actualiza", "la", "lista", "para",
    "verificar.">>

\* what mutateAsync rejects with; an empty text is an absent one
ErrorObjects ==
  [type : {"network", "undefined"},
   status : {0, 500},
   message : {<<>>, <<"Failed", "to", "fetch">>, <<"bloqueado", "por", "CORS">>,
              <<"Request", "failed">>},
   detail : {<<>>, <<"detail", "del", "servidor">>}]

IsNetworkError(e) ==
  \/ e.type = "network"
  \/ e.status = 0
  \/ \E i \in 1..Len(e.message) : e.message[i] \in {"CORS", "conexion", "fetch"}

\* errorMessage at the end of the catch block
ErrorMessage(e) ==
  IF IsNetworkError(e) THEN MayHaveCompleted
  ELSE IF e.detail # <<>> THEN e.detail
  ELSE IF e.message # <<>> THEN e.message
  ELSE <<"NOTIFICATION_MESSAGES.error.generic">>

ErrorToastAlwaysFailed(kind, isNetworkError, errorMessage) ==
  [title |-> IF kind = "expire" THEN "Error al Expirar" ELSE "Error al Activar",
   message |-> errorMessage,
   type |-> "error"]

\* the toast of the catch block
ErrorToast(kind, isNetworkError, errorMessage) ==
  [title |-> IF isNetworkError THEN "Error de Conexion"
             ELSE IF kind = "expire" THEN "Error al Expirar" ELSE "Error al Activar",
   message |-> errorMessage,
   type |-> "error"]

\* lastActionResult is null
NoActionResult == [type |-> "null", count |-> 0, isNetworkError |-> FALSE]

\* a click on "Expirar Suscripciones"; the button is disabled while the
\* mutation is pending
HandleExpireSubscriptions ==
  /\ Len(runs) < MaxRuns
  /\ \A i \in 1..Len(runs) : ~(runs[i].kind = "expire" /\ runs[i].pc = "mutating")
  /\ runs' = Append(runs, [kind |-> "expire", pc |-> "mutating", order |-> 0,
                           isNetworkError |-> FALSE, errorMessage |-> <<>>,
                           toast |-> <<>>])
  /\ UNCHANGED <<lastActionResult, pageQuery, timers>>
  /\ UNCHANGED outsidePage

\* a click on "Activar Suscripciones"
HandleActivateSubscriptions ==
  /\ Len(runs) < MaxRuns
  /\ \A i \in 1..Len(runs) : ~(runs[i].kind = "activate" /\ runs[i].pc = "mutating")
  /\ runs' = Append(runs, [kind |-> "activate", pc |-> "mutating", order |-> 0,
                           isNetworkError |-> FALSE, errorMessage |-> <<>>,
                           toast |-> <<>>])
  /\ UNCHANGED <<lastActionResult, pageQuery, timers>>
  /\ UNCHANGED outsidePage

\* mutateAsync resolves: the try block up to `await refetch()`
BulkResolved ==
  /\ \E i \in 1..Len(runs), count \in {0, 1} :
       /\ runs[i].pc = "mutating"
       /\ runs' = [runs EXCEPT ![i] =
                     [@ EXCEPT !.pc = "refreshing",
                               !.order = Cardinality({j \in 1..Len(runs) : runs[j].order > 0}) + 1,
                               !.toast =
                                 <<[title |-> IF count > 0 THEN "Operacion Completada"
                                              ELSE "Sin Cambios",
                                    message |-> IF count > 0
                                                THEN <<"Se", "procesaron", "suscripciones">>
                                                ELSE <<"No", "habia", "suscripciones",
                                                       "pendientes">>,
                                    type |-> IF count > 0 THEN "success" ELSE "info"]>>]]
       /\ lastActionResult' = [type |-> runs[i].kind, count |-> count,
                               isNetworkError |-> FALSE]
  /\ pageQuery' = [pageQuery EXCEPT !.isFetching = TRUE]
  /\ UNCHANGED timers
  /\ UNCHANGED outsidePage

\* mutateAsync rejects: the catch block, up to `await refetch()` after a
\* network error and to its end after another one
BulkRejected ==
  /\ \E i \in 1..Len(runs), e \in ErrorObjects :
       /\ runs[i].pc = "mutating"
       /\ IF IsNetworkError(e)
          THEN /\ runs' = [runs EXCEPT ![i] =
                             [@ EXCEPT !.pc = "refreshingAfterError",
                                       !.order = Cardinality({j \in 1..Len(runs) : runs[j].order > 0}) + 1,
                                       !.isNetworkError = TRUE,
                                       !.errorMessage = ErrorMessage(e)]]
               /\ lastActionResult' = [type |-> runs[i].kind, count |-> 0,
                                       isNetworkError |-> TRUE]
               /\ pageQuery' = [pageQuery EXCEPT !.isFetching = TRUE]
          ELSE /\ runs' = [runs EXCEPT ![i] =
                             [@ EXCEPT !.pc = "done",
                                       !.errorMessage = ErrorMessage(e),
                                       !.toast = <<ErrorToast(runs[i].kind, FALSE, ErrorMessage(e))>>]]
               /\ UNCHANGED <<lastActionResult, pageQuery>>
  /\ UNCHANGED timers
  /\ UNCHANGED outsidePage

\* the rest of a handler after its `await refetch()`, which resolves also
\* when the fetch failed: the try block arms the 8 s timer, the catch block
\* shows its toast
AfterRefetch(r) ==
  IF r.pc = "refreshing" THEN [r EXCEPT !.pc = "done"]
  ELSE IF r.pc = "refreshingAfterError"
  THEN [r EXCEPT !.pc = "done",
                 !.toast = <<ErrorToast(r.kind, r.isNetworkError, r.errorMessage)>>]
  ELSE r

\* a later refetch() cancels the fetch of an earlier one, whose promise
\* resolves at once
RefetchSuperseded ==
  /\ \E i \in 1..Len(runs) :
       /\ runs[i].pc \in {"refreshing", "refreshingAfterError"}
       /\ \E j \in 1..Len(runs) : runs[j].order > runs[i].order
       /\ runs' = [runs EXCEPT ![i] = AfterRefetch(runs[i])]
       /\ timers' = IF runs[i].pc = "refreshing" THEN timers + 1 ELSE timers
  /\ UNCHANGED <<lastActionResult, pageQuery>>
  /\ UNCHANGED outsidePage

\* the fetch of the page's query settles, and with it every refetch() that
\* is awaited
PageQuerySettled ==
  /\ pageQuery.isFetching
  /\ \E ok \in BOOLEAN : pageQuery' = [isFetching |-> FALSE, isError |-> ~ok]
  /\ runs' = [i \in 1..Len(runs) |-> AfterRefetch(runs[i])]
  /\ timers' = timers + Cardinality({i \in 1..Len(runs) : runs[i].pc = "refreshing"})
  /\ UNCHANGED lastActionResult
  /\ UNCHANGED outsidePage

\* setTimeout(() => setLastActionResult(null), 8000)
BannerTimeout ==
  /\ timers > 0
  /\ timers' = timers - 1
  /\ lastActionResult' = NoActionResult
  /\ UNCHANGED <<runs, pageQuery>>
  /\ UNCHANGED outsidePage

\* the close button of the banner
DismissBanner ==
  /\ lastActionResult # NoActionResult
  /\ lastActionResult' = NoActionResult
  /\ UNCHANGED <<runs, pageQuery, timers>>
  /\ UNCHANGED outsidePage

\* ------------------------------------------------------------------------
\* Reward configuration (useRewardConfig.ts)
\* ------------------------------------------------------------------------
\* REWARD_RULES and ELIGIBLE_PLAN_UNITS of rewardConstants.ts
DEFAULT_REWARD_CONFIG ==
  [attendance_threshold |-> 20, discount_percentage |-> 20, expiration_days |-> 7,
   eligible_plan_units |-> <<"month">>]

\* what rewardsApi.getRewardConfig() resolves with
ServerConfigs ==
  [attendance_threshold : {20, 1}, discount_percentage : {20, 15},
   expiration_days : {7, 14}, eligible_plan_units : {<<"month">>, <<"month", "week">>}]

\* the settled call of rewardsApi.getRewardConfig(); config is <<>> when it
\* rejected
ConfigResponses ==
  [ok : {TRUE}, config : {<<c>> : c \in ServerConfigs}]
    \cup {[ok |-> FALSE, config |-> <<>>]}

queryFnRethrows(response) ==
  IF response.ok THEN [threw |-> FALSE, value |-> response.config[1]]
  ELSE [threw |-> TRUE, value |-> DEFAULT_REWARD_CONFIG]

\* queryFn of useRewardConfig: the catch block returns the defaults
queryFn(response) ==
  IF response.ok THEN [threw |-> FALSE, value |-> response.config[1]]
  ELSE [threw |-> FALSE, value |-> DEFAULT_REWARD_CONFIG]

\* the result of the hook for the query q: data is <<>> when undefined, and
\* placeholderData stands in while the query is pending without data
useRewardConfig(q) ==
  [data |-> IF q.data # <<>> THEN q.data
            ELSE IF q.status = "pending" THEN <<DEFAULT_REWARD_CONFIG>>
            ELSE <<>>,
   isPlaceholderData |-> q.data = <<>> /\ q.status = "pending",
   isError |-> q.status = "error",
   isFetching |-> q.isFetching]

\* config.data ?? DEFAULT_REWARD_CONFIG
getRewardConfigData(config) ==
  IF config.data # <<>> THEN config.data[1] ELSE DEFAULT_REWARD_CONFIG

\* a consumer mounts, or mounts again when the data is older than staleTime
ConfigFetchStarted ==
  /\ ~configQuery.isFetching
  /\ configFetches < MaxConfigFetches
  /\ configQuery' = [configQuery EXCEPT !.isFetching = TRUE]
  /\ UNCHANGED <<lastResponse, configFetches>>
  /\ UNCHANGED outsideConfig

\* getRewardConfig settles and queryFn returns or throws; a throw is retried
\* `retry` times before the query goes to the error state
ConfigFetchSettled ==
  /\ configQuery.isFetching
  /\ \E response \in ConfigResponses :
       /\ lastResponse' = <<response>>
       /\ configQuery' =
            IF ~queryFn(response).threw
            THEN [status |-> "success", data |-> <<queryFn(response).value>>,
                  isFetching |-> FALSE, failureCount |-> 0]
            ELSE IF configQuery.failureCount < Retry
            THEN [configQuery EXCEPT !.failureCount = @ + 1]
            ELSE [configQuery EXCEPT !.status = "error", !.isFetching = FALSE,
                                     !.failureCount = @ + 1]
  /\ configFetches' = configFetches + 1
  /\ UNCHANGED outsideConfig

\* ------------------------------------------------------------------------
\* Reward progress of the current cycle (RewardProgress, rewardHelpers.ts)
\* ------------------------------------------------------------------------
\* check_in strings: a day and an hour of an ISO date-time, or text that is
\* no date; day 1 is the first and day 2 the last day of the cycle
CheckInStrings ==
  {[valid |-> TRUE, day |-> 0, hour |-> 23],
   [valid |-> TRUE, day |-> 1, hour |-> 0],
   [valid |-> TRUE, day |-> 1, hour |-> 12],
   [valid |-> TRUE, day |-> 2, hour |-> 0],
   [valid |-> TRUE, day |-> 2, hour |-> 1],
   [valid |-> FALSE, day |-> 0, hour |-> 0]}

\* new Date(string).getTime() in hours, <<>> for an Invalid Date (NaN)
NewDate(s) == IF s.valid THEN <<s.day * 24 + s.hour>> ELSE <<>>

calculateCycleAttendancesOpenEnd(attendances, startDate, endDate) ==
  IF attendances = <<>> \/ Len(attendances[1]) = 0 THEN 0
  ELSE Cardinality({i \in 1..Len(attendances[1]) :
         /\ NewDate(attendances[1][i]) # <<>> /\ NewDate(startDate) # <<>>
         /\ NewDate(endDate) # <<>>
         /\ NewDate(attendances[1][i])[1] >= NewDate(startDate)[1]
         /\ NewDate(attendances[1][i])[1] < NewDate(endDate)[1]})

\* a comparison with an Invalid Date is false
calculateCycleAttendances(attendances, startDate, endDate) ==
  IF attendances = <<>> \/ Len(attendances[1]) = 0 THEN 0
  ELSE Cardinality({i \in 1..Len(attendances[1]) :
         /\ NewDate(attendances[1][i]) # <<>> /\ NewDate(startDate) # <<>>
         /\ NewDate(endDate) # <<>>
         /\ NewDate(attendances[1][i])[1] >= NewDate(startDate)[1]
         /\ NewDate(attendances[1][i])[1] <= NewDate(endDate)[1]})

isPlanEligibleForRewardsAnyUnit(planDurationUnit, config) == TRUE

\* eligible_plan_units.includes(planDurationUnit)
isPlanEligibleForRewards(planDurationUnit, config) ==
  \E i \in 1..Len(config.eligible_plan_units) :
    config.eligible_plan_units[i] = planDurationUnit

RewardProgressStrict(p, config) ==
  IF \/ p.activeSubscription = <<>> \/ p.subscriptionPlan = <<>>
     \/ p.attendances = <<>> \/ Len(p.attendances[1]) = 0
  THEN <<>>
  ELSE IF ~isPlanEligibleForRewards(p.subscriptionPlan[1].duration_unit, config)
  THEN <<>>
  ELSE LET cycleAttendances ==
             calculateCycleAttendances(p.attendances, p.activeSubscription[1].start_date,
                                       p.activeSubscription[1].end_date)
           threshold == config.attendance_threshold
       IN <<[cycleAttendances |-> cycleAttendances,
             threshold |-> threshold,
             progressPercentage |->
               [num |-> IF cycleAttendances * 100 <= 100 * threshold
                        THEN cycleAttendances * 100 ELSE 100 * threshold,
                den |-> threshold],
             remaining |-> IF threshold - cycleAttendances > 0
                           THEN threshold - cycleAttendances ELSE 0,
             isComplete |-> cycleAttendances > threshold,
             discountPercentage |-> config.discount_percentage]>>

\* the useMemo `progress` of RewardProgress: <<>> is null; the percentage
\* Math.min((cycleAttendances / threshold) * 100, 100) is the fraction num/den
RewardProgress(p, config) ==
  IF \/ p.activeSubscription = <<>> \/ p.subscriptionPlan = <<>>
     \/ p.attendances = <<>> \/ Len(p.attendances[1]) = 0
  THEN <<>>
  ELSE IF ~isPlanEligibleForRewards(p.subscriptionPlan[1].duration_unit, config)
  THEN <<>>
  ELSE LET cycleAttendances ==
             calculateCycleAttendances(p.attendances, p.activeSubscription[1].start_date,
                                       p.activeSubscription[1].end_date)
           threshold == config.attendance_threshold
       IN <<[cycleAttendances |-> cycleAttendances,
             threshold |-> threshold,
             progressPercentage |->
               [num |-> IF cycleAttendances * 100 <= 100 * threshold
                        THEN cycleAttendances * 100 ELSE 100 * threshold,
                den |-> threshold],
             remaining |-> IF threshold - cycleAttendances > 0
                           THEN threshold - cycleAttendances ELSE 0,
             isComplete |-> cycleAttendances >= threshold,
             discountPercentage |-> config.discount_percentage]>>

\* the not-eligible panel of RewardCalculationStatus: "Faltan N" is in the
\* text only when remaining > 0
NotEligiblePanel(attendanceCount, config) ==
  [remaining |-> config.attendance_threshold - attendanceCount,
   progress |-> [num |-> IF attendanceCount * 100 <= 100 * config.attendance_threshold
                         THEN attendanceCount * 100
                         ELSE 100 * config.attendance_threshold,
                 den |-> config.attendance_threshold],
   remainingShown |-> IF config.attendance_threshold - attendanceCount > 0
                      THEN <<config.attendance_threshold - attendanceCount>>
                      ELSE <<>>]

\* RewardProgress renders with one prop, or the configuration, changed;
\* <<>> is a prop that is null or undefined
RewardProgressRendered ==
  /\ \/ \E v \in {<<>>, <<[start_date |-> [valid |-> TRUE, day |-> 1, hour |-> 0],
                          end_date |-> [valid |-> TRUE, day |-> 2, hour |-> 0]]>>} :
          /\ progressProps' = [progressProps EXCEPT !.activeSubscription = v]
          /\ UNCHANGED progressConfig
     \/ \E v \in {<<>>} \cup {<<[duration_unit |-> u]>> : u \in {"month", "week", "Month"}} :
          /\ progressProps' = [progressProps EXCEPT !.subscriptionPlan = v]
          /\ UNCHANGED progressConfig
     \/ \E n \in 0..MaxAttendances : \E a \in [1..n -> CheckInStrings] :
          /\ progressProps' = [progressProps EXCEPT !.attendances = <<a>>]
          /\ UNCHANGED progressConfig
     \/ /\ progressProps' = [progressProps EXCEPT !.attendances = <<>>]
        /\ UNCHANGED progressConfig
     \/ \E c \in ServerConfigs :
          /\ progressConfig' = c
          /\ UNCHANGED progressProps
  /\ progress' = RewardProgress(progressProps', progressConfig')
  /\ UNCHANGED outsideProgress

\* ------------------------------------------------------------------------
\* Client status dialogs (ClientList in ClientCard.tsx, useClientStatusToggle)
\* ------------------------------------------------------------------------
\* "delete" stands for isDeleteModalOpen / clientToDelete and "activate" for
\* isActivateModalOpen / clientToActivate; Null is no client

\* a row button: handleDeleteClick(client) or handleActivateClick(client);
\* the buttons are disabled while a toggle is in progress
HandleStatusClick ==
  /\ ~isToggling
  /\ \E kind \in {"delete", "activate"}, client \in ClientIds :
       /\ clientToToggle' = [clientToToggle EXCEPT ![kind] = client]
       /\ isStatusModalOpen' = [isStatusModalOpen EXCEPT ![kind] = TRUE]
  /\ UNCHANGED <<isToggling, toggleCall, lastToggle>>
  /\ UNCHANGED outsideToggle

\* the confirm button of a dialog: handleDeleteConfirm or
\* handleActivateConfirm up to `await handleDeactivate / handleActivate`
HandleStatusConfirm ==
  /\ ~isToggling
  /\ \E kind \in {"delete", "activate"} :
       /\ isStatusModalOpen[kind]
       /\ clientToToggle[kind] # Null
       /\ toggleCall' = [kind |-> kind, client |-> clientToToggle[kind]]
  /\ isToggling' = TRUE
  /\ UNCHANGED <<isStatusModalOpen, clientToToggle, lastToggle>>
  /\ UNCHANGED outsideToggle

\* mutateAsync resolves: the success toast, then the dialog of the call is
\* closed and its client forgotten
ToggleResolved ==
  /\ isToggling
  /\ isStatusModalOpen' = [isStatusModalOpen EXCEPT ![toggleCall.kind] = FALSE]
  /\ clientToToggle' = [clientToToggle EXCEPT ![toggleCall.kind] = Null]
  /\ isToggling' = FALSE
  /\ toggleCall' = [kind |-> "none", client |-> Null]
  /\ lastToggle' = "ok"
  /\ UNCHANGED outsideToggle

\* mutateAsync rejects: the hook shows the error toast and rethrows, the
\* catch of the confirm handler only logs
ToggleRejected ==
  /\ isToggling
  /\ isToggling' = FALSE
  /\ toggleCall' = [kind |-> "none", client |-> Null]
  /\ lastToggle' = "failed"
  /\ UNCHANGED <<isStatusModalOpen, clientToToggle>>
  /\ UNCHANGED outsideToggle

HandleStatusModalCloseAlways ==
  /\ \E kind \in {"delete", "activate"} :
       /\ isStatusModalOpen[kind]
       /\ isStatusModalOpen' = [isStatusModalOpen EXCEPT ![kind] = FALSE]
       /\ clientToToggle' = [clientToToggle EXCEPT ![kind] = Null]
  /\ UNCHANGED <<isToggling, toggleCall, lastToggle>>
  /\ UNCHANGED outsideToggle

\* onClose of a dialog: handleDeleteModalClose or handleActivateModalClose
HandleStatusModalClose ==
  /\ \E kind \in {"delete", "activate"} :
       /\ isStatusModalOpen[kind]
       /\ IF ~isToggling
          THEN /\ isStatusModalOpen' = [isStatusModalOpen EXCEPT ![kind] = FALSE]
               /\ clientToToggle' = [clientToToggle EXCEPT ![kind] = Null]
          ELSE UNCHANGED <<isStatusModalOpen, clientToToggle>>
  /\ UNCHANGED <<isToggling, toggleCall, lastToggle>>
  /\ UNCHANGED outsideToggle

\* ------------------------------------------------------------------------
\* Properties of the bulk operations
\* ------------------------------------------------------------------------
\* C19: a bulk expire or activate call that ended with a detected network
\* error raises the banner of an operation that may have run, starts a
\* refresh of the list, and ends, whether that refresh succeeds or fails,
\* with the toast "Error de Conexion" whose message says the operation may
\* have completed and asks to verify; it never shows "Error al Expirar" or
\* "Error al Activar", and the handler always runs to its end.
C19_NetworkErrorMayHaveCompleted ==
  /\ [](\A i \in 1..Len(runs) :
          runs[i].isNetworkError =>
            /\ runs[i].order > 0
            /\ runs[i].errorMessage = MayHaveCompleted
            /\ runs[i].pc \in {"refreshingAfterError", "done"}
            /\ runs[i].pc = "refreshingAfterError" => runs[i].toast = <<>>
            /\ runs[i].pc = "done" =>
                 runs[i].toast = <<[title |-> "Error de Conexion",
                                    message |-> MayHaveCompleted,
                                    type |-> "error"]>>)
  /\ [][\A i \in 1..Len(runs) :
          /\ (~runs[i].isNetworkError /\ runs'[i].isNetworkError)
               => /\ lastActionResult' = [type |-> runs[i].kind, count |-> 0,
                                          isNetworkError |-> TRUE]
                  /\ pageQuery'.isFetching
          /\ (runs[i].pc = "refreshingAfterError" /\ pageQuery.isFetching
                /\ ~pageQuery'.isFetching)
               => runs'[i].pc = "done"]_vars

\* a network-error run that ended after its refresh failed
C19_Witness ==
  /\ pageQuery.isError
  /\ ~pageQuery.isFetching
  /\ \E i \in 1..Len(runs) :
       /\ runs[i].isNetworkError
       /\ runs[i].pc = "done"
       /\ runs[i].toast # <<>>

\* C28: the banner of a bulk operation is not removed by the timer of
\* another operation: while the banner on display is the one of the latest
\* operation and that operation has not started its 8 s timer yet (it still
\* awaits its refresh), a timer that fires leaves the banner in place.
C28_BannerRemovedByOwnTimerOnly ==
  [][(/\ lastActionResult # NoActionResult
      /\ timers' < timers
      /\ \E i \in 1..Len(runs) :
           /\ runs[i].pc = "refreshing"
           /\ \A j \in 1..Len(runs) : runs[j].order <= runs[i].order)
       => lastActionResult' = lastActionResult]_vars

\* ------------------------------------------------------------------------
\* Properties of the reward configuration
\* ------------------------------------------------------------------------
\* C20: the configuration that consumers read is always a configuration:
\* the defaults (20, 20, 7, [month]) until a fetch has settled and after a
\* fetch that failed, the fetched configuration after a fetch that
\* succeeded; the hook never hands out undefined data and the query is
\* never in the error state.
C20_ConfigNeverAbsent ==
  /\ getRewardConfigData(useRewardConfig(configQuery)) \in ServerConfigs
  /\ useRewardConfig(configQuery).data # <<>>
  /\ ~useRewardConfig(configQuery).isError
  /\ configQuery.failureCount = 0
  /\ getRewardConfigData(useRewardConfig(configQuery)) =
       IF lastResponse # <<>> /\ lastResponse[1].ok
       THEN lastResponse[1].config[1]
       ELSE DEFAULT_REWARD_CONFIG
  /\ DEFAULT_REWARD_CONFIG =
       [attendance_threshold |-> 20, discount_percentage |-> 20,
        expiration_days |-> 7, eligible_plan_units |-> <<"month">>]

\* a fetch failed after an earlier one had delivered another configuration
C20_Witness ==
  /\ lastResponse # <<>>
  /\ ~lastResponse[1].ok
  /\ configFetches >= 2
  /\ configQuery.status = "success"
  /\ ~configQuery.isFetching

\* C26: every cached detail entry stored under the key of id x holds a
\* record whose id is x, also after a renewal that answers with a record
\* of a new id.
C26_DetailHoldsOwnId ==
  \A x \in CachedIds :
    queries[detailKey(x)].hasData =>
      /\ Len(queries[detailKey(x)].data) = 1
      /\ queries[detailKey(x)].data[1].id = x

\* ------------------------------------------------------------------------
\* Properties of the reward progress
\* ------------------------------------------------------------------------
\* C21: the cycle attendance count is the number of records whose check_in
\* lies in [start_date, end_date], both ends included: a check_in at the
\* start or at the end is counted, one an hour before the start or an hour
\* after the end is not.
C21_ClosedCycleInterval ==
  progress # <<>> =>
    LET list == progressProps.attendances[1]
        InCycle(s) == s.valid /\ s.day * 24 + s.hour \in 24..48
    IN /\ progress[1].cycleAttendances = Cardinality({i \in 1..Len(list) : InCycle(list[i])})
       /\ \A i \in 1..Len(list) :
            /\ list[i] = [valid |-> TRUE, day |-> 0, hour |-> 23] => ~InCycle(list[i])
            /\ list[i] = [valid |-> TRUE, day |-> 1, hour |-> 0] => InCycle(list[i])
            /\ list[i] = [valid |-> TRUE, day |-> 2, hour |-> 0] => InCycle(list[i])
            /\ list[i] = [valid |-> TRUE, day |-> 2, hour |-> 1] => ~InCycle(list[i])

\* a check_in at the end of the cycle is counted, one an hour later is not
C21_Witness ==
  /\ progress # <<>>
  /\ progressProps.attendances[1] =
       <<[valid |-> TRUE, day |-> 2, hour |-> 0], [valid |-> TRUE, day |-> 2, hour |-> 1]>>
  /\ progress[1].cycleAttendances = 1

\* C22: the progress is complete exactly when count >= threshold, the
\* percentage is min(100, count / threshold * 100), remaining is
\* max(0, threshold - count), and no place shows a negative remaining: the
\* not-eligible panel of the renewal dialog shows it only when positive.
C22_EligibilityArithmetic ==
  /\ progress # <<>> =>
       LET count == progress[1].cycleAttendances
           threshold == progress[1].threshold
           pct == progress[1].progressPercentage
       IN /\ threshold = progressConfig.attendance_threshold
          /\ progress[1].isComplete <=> count >= threshold
          /\ count = threshold => progress[1].isComplete
          /\ count = threshold - 1 => ~progress[1].isComplete
          /\ pct.den > 0
          /\ pct.num <= 100 * pct.den
          /\ count <= threshold => pct.num * threshold = count * 100 * pct.den
          /\ count >= threshold => pct.num = 100 * pct.den
          /\ progress[1].remaining >= 0
          /\ count <= threshold => progress[1].remaining = threshold - count
          /\ count >= threshold => progress[1].remaining = 0
  /\ \A n \in AttendanceCounts \cup {0, 1, 2} :
       LET panel == NotEligiblePanel(n, progressConfig)
       IN /\ panel.remainingShown # <<>> => panel.remainingShown[1] > 0
          /\ panel.remainingShown # <<>> =>
               panel.remainingShown[1] = progressConfig.attendance_threshold - n
          /\ panel.progress.num <= 100 * panel.progress.den

\* the count has passed the threshold
C22_Witness ==
  /\ progress # <<>>
  /\ progress[1].cycleAttendances > progress[1].threshold
  /\ progress[1].isComplete
  /\ progress[1].remaining = 0

\* C23: when the plan's duration unit is not one of the configured eligible
\* units (compared exactly), the progress is null whatever the attendances
\* are: no count, percentage or completeness is computed.
C23_IneligibleUnitNotApplicable ==
  (/\ progressProps.subscriptionPlan # <<>>
   /\ \A i \in 1..Len(progressConfig.eligible_plan_units) :
        progressConfig.eligible_plan_units[i] # progressProps.subscriptionPlan[1].duration_unit)
    => progress = <<>>

\* a weekly plan with eligible units [month] and attendances in the cycle
C23_Witness ==
  /\ progressProps.subscriptionPlan = <<[duration_unit |-> "week"]>>
  /\ progressConfig.eligible_plan_units = <<"month">>
  /\ progressProps.activeSubscription # <<>>
  /\ progressProps.attendances # <<>>
  /\ calculateCycleAttendances(progressProps.attendances,
                               progressProps.activeSubscription[1].start_date,
                               progressProps.activeSubscription[1].end_date) >= 1
  /\ progress = <<>>

\* C24: the outcome for missing data (no attendances, no subscription or no
\* plan) differs from the outcome for a plan that is not applicable: taking
\* the attendances away from a not-applicable case changes the result.
C24_NoDataDistinctFromNotApplicable ==
  (/\ progressProps.activeSubscription # <<>>
   /\ progressProps.subscriptionPlan # <<>>
   /\ progressProps.attendances # <<>>
   /\ Len(progressProps.attendances[1]) > 0
   /\ ~isPlanEligibleForRewards(progressProps.subscriptionPlan[1].duration_unit,
                                progressConfig))
    => progress # RewardProgress([progressProps EXCEPT !.attendances = <<>>],
                                 progressConfig)

\* ------------------------------------------------------------------------
\* Membership reminder of the Dashboard
\* ------------------------------------------------------------------------

\* the effect with a markAsShown that only sets the state of the hook
ReminderEffectStateOnly(storage, q, shown, attempted) ==
  LET shouldShowReminder ==
        /\ ~q.isLoading
        /\ ~q.isRefetching
        /\ q.hasData
        /\ ~storage
        /\ ~shown
        /\ ~attempted
  IN  [opens     |-> shouldShowReminder,
       storage   |-> storage,
       shown     |-> shown \/ shouldShowReminder,
       attempted |-> attempted \/ shouldShowReminder]

\* the effect of the Dashboard: opens the reminder, marks it as shown in
\* sessionStorage and in the state of the hook, and sets the ref
ReminderEffect(storage, q, shown, attempted) ==
  LET shouldShowReminder ==
        /\ ~q.isLoading
        /\ ~q.isRefetching
        /\ q.hasData
        /\ ~storage
        /\ ~shown
        /\ ~attempted
  IN  [opens     |-> shouldShowReminder,
       storage   |-> storage \/ shouldShowReminder,
       shown     |-> shown \/ shouldShowReminder,
       attempted |-> attempted \/ shouldShowReminder]

\* the Dashboard is mounted: the state of the hook is read from
\* sessionStorage, the ref and the modal start false, the query may already
\* hold cached data, and the effect runs
DashboardMounted ==
  /\ ~dashboardMounted
  /\ \E loading, refetching, data \in BOOLEAN :
       /\ ~(loading /\ refetching)
       /\ LET q == [isLoading |-> loading, isRefetching |-> refetching,
                    hasData |-> data]
              e == ReminderEffect(reminderStorage, q, reminderStorage, FALSE)
          IN  /\ dashboardMounted' = TRUE
              /\ dashboardQuery' = q
              /\ reminderStorage' = e.storage
              /\ hasShownReminder' = e.shown
              /\ hasAttemptedToShowReminder' = e.attempted
              /\ isReminderModalOpen' = e.opens
              /\ reminderOpens' = IF e.opens /\ reminderOpens < MaxOpens
                                    THEN reminderOpens + 1 ELSE reminderOpens
  /\ UNCHANGED outsideReminder

\* the Dashboard leaves the screen: its state and its ref are gone,
\* sessionStorage stays
DashboardUnmounted ==
  /\ dashboardMounted
  /\ dashboardMounted' = FALSE
  /\ hasShownReminder' = FALSE
  /\ hasAttemptedToShowReminder' = FALSE
  /\ isReminderModalOpen' = FALSE
  /\ dashboardQuery' = [isLoading |-> TRUE, isRefetching |-> FALSE,
                        hasData |-> FALSE]
  /\ UNCHANGED <<reminderStorage, reminderOpens>>
  /\ UNCHANGED outsideReminder

\* the dashboard query changes (first load done, refetch started or done,
\* filter changed, data lost) and the effect runs on the new values
DashboardQueryChanged ==
  /\ dashboardMounted
  /\ \E loading, refetching, data \in BOOLEAN :
       /\ ~(loading /\ refetching)
       /\ LET q == [isLoading |-> loading, isRefetching |-> refetching,
                    hasData |-> data]
              e == ReminderEffect(reminderStorage, q, hasShownReminder,
                                  hasAttemptedToShowReminder)
          IN  /\ q # dashboardQuery
              /\ dashboardQuery' = q
              /\ reminderStorage' = e.storage
              /\ hasShownReminder' = e.shown
              /\ hasAttemptedToShowReminder' = e.attempted
              /\ isReminderModalOpen' = (isReminderModalOpen \/ e.opens)
              /\ reminderOpens' = IF e.opens /\ reminderOpens < MaxOpens
                                    THEN reminderOpens + 1 ELSE reminderOpens
  /\ UNCHANGED dashboardMounted
  /\ UNCHANGED outsideReminder

HandleCloseReminder ==
  /\ dashboardMounted
  /\ isReminderModalOpen
  /\ isReminderModalOpen' = FALSE
  /\ UNCHANGED <<reminderStorage, dashboardMounted, hasShownReminder,
                 hasAttemptedToShowReminder, dashboardQuery, reminderOpens>>
  /\ UNCHANGED outsideReminder

\* clearReminderState: by the hook instance of the mounted Dashboard (its
\* state changes, so the effect runs again) or by another instance (only
\* sessionStorage changes)
ClearReminderState ==
  /\ \E own \in BOOLEAN :
       /\ own => dashboardMounted
       /\ LET shown == IF own THEN FALSE ELSE hasShownReminder
              e == IF own /\ hasShownReminder
                     THEN ReminderEffect(FALSE, dashboardQuery, shown,
                                         hasAttemptedToShowReminder)
                     ELSE [opens |-> FALSE, storage |-> FALSE, shown |-> shown,
                           attempted |-> hasAttemptedToShowReminder]
          IN  /\ reminderStorage' = e.storage
              /\ hasShownReminder' = e.shown
              /\ hasAttemptedToShowReminder' = e.attempted
              /\ isReminderModalOpen' = (isReminderModalOpen \/ e.opens)
              /\ reminderOpens' = IF e.opens THEN 1 ELSE 0
  /\ UNCHANGED <<dashboardMounted, dashboardQuery>>
  /\ UNCHANGED outsideReminder

\* ------------------------------------------------------------------------
\* Properties of the client status dialogs
\* ------------------------------------------------------------------------
\* C29: a status dialog goes from open to closed only in the step in which
\* the toggle confirmed in it succeeds, or in a step taken while no toggle
\* is in progress; while a toggle is in progress no other step (a close
\* request included) changes a dialog or its client, and the step in which
\* a toggle fails leaves every dialog open with its client.
C29_DialogClosesOnlyOnSuccess ==
  [][/\ \A kind \in {"delete", "activate"} :
          (isStatusModalOpen[kind] /\ ~isStatusModalOpen'[kind])
            => \/ isToggling /\ ~isToggling' /\ lastToggle' = "ok" /\ toggleCall.kind = kind
               \/ ~isToggling /\ ~isToggling'
     /\ (isToggling /\ isToggling')
          => (isStatusModalOpen' = isStatusModalOpen /\ clientToToggle' = clientToToggle)
     /\ (isToggling /\ ~isToggling' /\ lastToggle' = "failed")
          => /\ isStatusModalOpen' = isStatusModalOpen
             /\ clientToToggle' = clientToToggle
             /\ isStatusModalOpen[toggleCall.kind]
             /\ clientToToggle[toggleCall.kind] = toggleCall.client]_vars

\* a deactivation failed and its dialog is still open for the client
C29_Witness ==
  /\ lastToggle = "failed"
  /\ ~isToggling
  /\ isStatusModalOpen["delete"]
  /\ clientToToggle["delete"] = "c2"

\* ------------------------------------------------------------------------
\* Properties of the membership reminder
\* ------------------------------------------------------------------------

\* C30: within one browser session the reminder is opened automatically at
\* most once, whatever the loads, refetches, filter changes and remounts of
\* the Dashboard, unless the reminder state was cleared in between: the
\* openings counted since the last clear never exceed one, and a step that
\* opens the reminder is the first opening since then and leaves the mark
\* in sessionStorage.
C30_OpenedAutomaticallyAtMostOnce ==
  /\ [](reminderOpens <= 1)
  /\ [][(~isReminderModalOpen /\ isReminderModalOpen')
            => (reminderStorage' /\ reminderOpens' = 1)]_vars

\* the reminder was shown and closed, the Dashboard was mounted again and
\* has loaded its data, and the reminder stays closed
C30_Witness ==
  /\ reminderOpens = 1
  /\ reminderStorage
  /\ dashboardMounted
  /\ ~hasAttemptedToShowReminder
  /\ hasShownReminder
  /\ ~dashboardQuery.isLoading
  /\ ~dashboardQuery.isRefetching
  /\ dashboardQuery.hasData
  /\ ~isReminderModalOpen

\* ------------------------------------------------------------------------
\* Specifications
\* ------------------------------------------------------------------------
Init ==
  /\ InitDialog
  /\ InitTracker
  /\ InitCache
  \* SubscriptionsPage mounts with shouldFetch true
  /\ runs = <<>>
  /\ lastActionResult = NoActionResult
  /\ pageQuery = [isFetching |-> TRUE, isError |-> FALSE]
  /\ timers = 0
  \* no consumer of the reward configuration has mounted
  /\ configQuery = [status |-> "pending", data |-> <<>>, isFetching |-> FALSE,
                    failureCount |-> 0]
  /\ lastResponse = <<>>
  /\ configFetches = 0
  \* RewardProgress has no data yet
  /\ progressProps = [activeSubscription |-> <<>>, subscriptionPlan |-> <<>>,
                      attendances |-> <<>>]
  /\ progressConfig = DEFAULT_REWARD_CONFIG
  /\ progress = <<>>
  \* ClientList shows no status dialog
  /\ isStatusModalOpen = [kind \in {"delete", "activate"} |-> FALSE]
  /\ clientToToggle = [kind \in {"delete", "activate"} |-> Null]
  /\ isToggling = FALSE
  /\ toggleCall = [kind |-> "none", client |-> Null]
  /\ lastToggle = "none"
  \* a new browser session: nothing stored, the Dashboard not yet on screen
  /\ reminderStorage = FALSE
  /\ dashboardMounted = FALSE
  /\ hasShownReminder = FALSE
  /\ hasAttemptedToShowReminder = FALSE
  /\ isReminderModalOpen = FALSE
  /\ dashboardQuery = [isLoading |-> TRUE, isRefetching |-> FALSE, hasData |-> FALSE]
  /\ reminderOpens = 0

Next ==
  \/ Open
  \/ SubscriptionRefetched
  \/ RewardsRefetched
  \/ OnCalculationSuccess
  \/ SelectReward
  \/ Confirm
  \/ RenewalResolved
  \/ RenewalRejected
  \/ ApplyResolved
  \/ ApplyRejected
  \/ ModalClose
  \/ Cancel

\* the renewal dialog
Spec == Init /\ [][Next]_vars

TrackerNext ==
  \/ FetchSucceeded
  \/ FetchFailed
  \/ Refetch
  \/ StartCalculate
  \/ CalculateResolved
  \/ CalculateRejected
  \/ Tick

\* the reward tracker
TrackerSpec == Init /\ [][TrackerNext]_vars

CacheNext ==
  \/ QueryMounted
  \/ QueryFetched
  \/ QueryFetchFailed
  \/ CreateSucceeded
  \/ RenewSucceeded
  \/ CancelSucceeded
  \/ UpdateSucceeded
  \/ DeleteSucceeded
  \/ ExpireSucceeded
  \/ ActivateSucceeded
  \/ MutationFailed

\* the query cache
CacheSpec == Init /\ [][CacheNext]_vars

PageNext ==
  \/ HandleExpireSubscriptions
  \/ HandleActivateSubscriptions
  \/ BulkResolved
  \/ BulkRejected
  \/ RefetchSuperseded
  \/ PageQuerySettled
  \/ BannerTimeout
  \/ DismissBanner

PageSpec == Init /\ [][PageNext]_vars

ConfigNext ==
  \/ ConfigFetchStarted
  \/ ConfigFetchSettled

ConfigSpec == Init /\ [][ConfigNext]_vars

ProgressNext == RewardProgressRendered

ProgressSpec == Init /\ [][ProgressNext]_vars

ToggleNext ==
  \/ HandleStatusClick
  \/ HandleStatusConfirm
  \/ ToggleResolved
  \/ ToggleRejected
  \/ HandleStatusModalClose

ToggleSpec == Init /\ [][ToggleNext]_vars

ReminderNext ==
  \/ DashboardMounted
  \/ DashboardUnmounted
  \/ DashboardQueryChanged
  \/ HandleCloseReminder
  \/ ClearReminderState

ReminderSpec == Init /\ [][ReminderNext]_vars

====
